---- MODULE Spec2Model ----
(***************************************************************************)
(* Model of src/script.js: the progressive enhancements of a static        *)
(* portfolio page.  Each feature of the script is an immediately invoked   *)
(* function run once at page load, which installs event handlers and       *)
(* timers.  The page load is the action that runs a feature's body; every  *)
(* handler and timer callback is one action.                               *)
(*                                                                         *)
(* Strings that the code transforms (trim, toLowerCase, split, replace,    *)
(* concatenation) are sequences of one-character strings.                  *)
(***************************************************************************)
EXTENDS Integers, Sequences, FiniteSets, TLC

(***************************************************************************)
(* Bounds of the model.                                                    *)
(***************************************************************************)
MaxLen == 3          \* longest subtitle text (before trimming)
MaxHrefLen == 2      \* longest href of the copy-email element, in lexemes
MaxClicks == 2       \* activations of the copy-email element
MaxTicks == 5        \* clock ticks of TimeStep units
ScrollMargin == 1    \* scroll offsets tried on each side of the threshold
MaxToggles == 3      \* theme toggle clicks per page load
NumImages == 2       \* most opt-in lightbox images on the page
NumCards == 2        \* most project cards on the page
NumButtons == 3      \* filter controls on the page
NumTargets == 3      \* most reveal targets on the page
MaxBatch == 2        \* most entries in one intersection notification
MaxIdLen == 2        \* longest element id and link fragment, in characters
MaxEvents == 3       \* most events handled on the composed page after load

\* JavaScript null / undefined / an absent attribute, where a string may stand
Null == <<"null">>
\* lastToast before the first call of toast
NoToast == [at |-> 0, duration |-> 0, msg |-> ""]

(***************************************************************************)
(* String helpers (String.prototype.trim, Array concat).                   *)
(***************************************************************************)
SeqsUpTo(S, n) == UNION {[1..k -> S] : k \in 0..n}

IsSpace(c) == c = " "

RECURSIVE TrimStart(_)
TrimStart(s) ==
    IF s # <<>> /\ IsSpace(Head(s)) THEN TrimStart(Tail(s)) ELSE s

RECURSIVE TrimEnd(_)
TrimEnd(s) ==
    IF s # <<>> /\ IsSpace(s[Len(s)]) THEN TrimEnd(SubSeq(s, 1, Len(s) - 1)) ELSE s

Trim(s) == TrimEnd(TrimStart(s))

VARIABLES
    loaded,          \* the script has run on the current document
    \* ---- typing effect (lines 89-112)
    hasSubtitle,     \* $("header p") matches an element
    rawText,         \* the element's text content in the served page
    full,            \* const full
    i,               \* let i
    elChildren,      \* child nodes of the subtitle element, in order
    typingTimers,    \* pending setTimeout(typeNext, ...) callbacks
    blinkIntervals,  \* intervals started by setInterval
    cursorOpacity,   \* cursor.style.opacity
    \* ---- copy e-mail (lines 294-313) and toast (lines 337-367)
    copyPresent,     \* $('[data-copy-email], a[href^="mailto:"]') matches
    copyAttr,        \* el.dataset.copyEmail (Null when the attribute is absent)
    copyHref,        \* el.getAttribute("href") (Null when absent)
    clipboardApi,    \* navigator.clipboard is defined
    acts,            \* one record per activation of the element, in order
    clipboard,       \* the text on the system clipboard
    timers,          \* pending setTimeout callbacks of these two features
    now,             \* the clock
    toastCount,      \* elements with id "toast" in the document
    toastText,       \* t.textContent
    toastOpacity,    \* t.style.opacity
    lastToast,       \* time, duration and message of the most recent toast call
    navigations,     \* assignments to window.location.href, in order
    \* ---- back-to-top button (lines 117-144)
    scrollY,         \* window.scrollY
    btnCount,        \* elements with id "backToTop" in the document
    btnDisplay,      \* btn.style.display
    \* ---- theme toggle (lines 150-203)
    storage,         \* localStorage item "theme-preference" (Absent when not set)
    matchMediaSupported, \* window.matchMedia is defined
    systemDark,      \* the (prefers-color-scheme: dark) query matches
    rootTheme,       \* document.documentElement.dataset.theme
    themeIcon,       \* text of the toggle button
    themeStyleCount, \* elements with id "theme-style" in the document
    toggles,         \* toggle clicks since the page was loaded
    loadMarker,      \* rootTheme right after load
    loadStored,      \* storage right after load
    \* ---- lightbox (lines 242-289)
    numImgs,         \* number of img[data-lightbox] elements
    overlayCount,    \* overlay elements created
    bigCount,        \* enlarged-image elements created
    overlayDisplay,  \* overlay.style.display
    bigSrc,          \* big.src: the index of an opt-in image, 0 while unset
    bigAlt,          \* big.alt
    lbLast,          \* the last event among image click, background click, Escape
    lbEvent,         \* the last lightbox event of any kind
    lbShown,         \* the last two images clicked, the most recent last
    \* ---- project filter (lines 209-237)
    cardTags,        \* card.dataset.tags of every .project card (Null when absent)
    cardDisplay,     \* card.style.display of every card
    btnActive,       \* the filter controls whose class list holds "active"
    filterOn,        \* the click handlers of lines 227-233 are installed
    lastClicked,     \* the filter control clicked last, 0 before any click
    \* ---- reveal on scroll (lines 52-69)
    ioSupported,     \* "IntersectionObserver" in window
    numTargets,      \* number of elements matched by the reveal selectors
    revealClass,     \* the targets whose class list holds "reveal"
    revealIn,        \* the targets whose class list holds "reveal-in"
    observed,        \* the targets the observer watches
    everIntersected, \* the targets an intersecting entry was delivered for
    lastBatch,       \* the entries of the last notification
    \* ---- smooth scroll (lines 33-46)
    docElem,         \* the element of the page that carries an id, or NoElem
    elemTop,         \* the scroll offset at which that element starts
    urlHash,         \* the fragment of the address (Null when there is none)
    lastAnchor,      \* what the handler did on the last hash-link click
    \* ---- the whole script on one page
    events           \* the number of events handled since load

typingVars ==
    <<hasSubtitle, rawText, full, i, elChildren, typingTimers, blinkIntervals,
      cursorOpacity>>

copyVars ==
    <<copyPresent, copyAttr, copyHref, clipboardApi, acts, clipboard, timers, now,
      toastCount, toastText, toastOpacity, lastToast, navigations>>

topVars == <<scrollY, btnCount, btnDisplay>>

themeVars ==
    <<storage, matchMediaSupported, systemDark, rootTheme, themeIcon,
      themeStyleCount, toggles, loadMarker, loadStored>>

lightboxVars ==
    <<numImgs, overlayCount, bigCount, overlayDisplay, bigSrc, bigAlt, lbLast,
      lbEvent, lbShown>>

uiVars == <<topVars, themeVars, lightboxVars>>

filterVars == <<cardTags, cardDisplay, btnActive, filterOn, lastClicked>>

revealVars ==
    <<ioSupported, numTargets, revealClass, revealIn, observed, everIntersected,
      lastBatch>>

anchorVars == <<docElem, elemTop, urlHash, lastAnchor>>

\* What the steps of one feature group leave alone.
exceptTyping == <<copyVars, uiVars, filterVars, revealVars, anchorVars>>
exceptCopy == <<typingVars, uiVars, filterVars, revealVars, anchorVars>>
exceptUi == <<typingVars, copyVars, filterVars, revealVars, anchorVars>>
exceptFilter == <<typingVars, copyVars, uiVars, revealVars, anchorVars>>
exceptReveal == <<typingVars, copyVars, uiVars, filterVars, anchorVars>>
exceptAnchor == <<typingVars, copyVars, filterVars, revealVars>>

vars ==
    <<loaded, typingVars, copyVars, uiVars, filterVars, revealVars, anchorVars,
      events>>

(***************************************************************************)
(* Typing effect                                                           *)
(***************************************************************************)
CursorGlyph == "|"   \* stands for the block glyph of line 96
TypingChars == {"a", "b", " "}

TextNode(s) == [kind |-> "text", data |-> s]
CursorNode == [kind |-> "span", data |-> <<CursorGlyph>>]

\* Node.textContent getter: the concatenated text of all descendants.
RECURSIVE TextContent(_)
TextContent(children) ==
    IF children = <<>> THEN <<>>
    ELSE Head(children).data \o TextContent(Tail(children))

\* Node.textContent setter: every child is removed and, unless the string is
\* empty, replaced by a single text node.
SetTextContent(s) == IF s = <<>> THEN <<>> ELSE <<TextNode(s)>>

\* Node.appendChild: a node that is already in the tree is first removed from
\* its place, then put last.
AppendChild(children, node) ==
    SelectSeq(children, LAMBDA n : n # node) \o <<node>>

\* typeNext (lines 99-110) on the record of the closure's state.
TypeNextStep(st) ==
    IF st.i < Len(st.full)
    THEN [st EXCEPT
            !.children =
                AppendChild(
                    SetTextContent(TextContent(st.children) \o <<st.full[st.i + 1]>>),
                    CursorNode),
            !.i = st.i + 1,
            !.timers = st.timers + 1]
    ELSE [st EXCEPT !.intervals = st.intervals + 1]

TypingState ==
    [full |-> full, i |-> i, children |-> elChildren, timers |-> typingTimers,
     intervals |-> blinkIntervals]

SetTypingState(st) ==
    /\ full' = st.full
    /\ i' = st.i
    /\ elChildren' = st.children
    /\ typingTimers' = st.timers
    /\ blinkIntervals' = st.intervals

TypingPage ==
    /\ hasSubtitle \in BOOLEAN
    /\ rawText \in SeqsUpTo(TypingChars, MaxLen)
    /\ hasSubtitle = FALSE => rawText = <<>>
    /\ full = <<>>
    /\ i = 0
    /\ elChildren = SetTextContent(rawText)
    /\ typingTimers = 0
    /\ blinkIntervals = 0
    /\ cursorOpacity = ""

TypingIdle ==
    /\ hasSubtitle = FALSE
    /\ rawText = <<>>
    /\ full = <<>>
    /\ i = 0
    /\ elChildren = <<>>
    /\ typingTimers = 0
    /\ blinkIntervals = 0
    /\ cursorOpacity = ""

\* The body of typingEffect, which ends with a direct call of typeNext.
typingEffect ==
    IF ~hasSubtitle
    THEN UNCHANGED typingVars
    ELSE /\ SetTypingState(
                TypeNextStep([full |-> Trim(TextContent(elChildren)), i |-> 0,
                              children |-> SetTextContent(<<>>), timers |-> 0,
                              intervals |-> 0]))
         /\ UNCHANGED <<hasSubtitle, rawText, cursorOpacity>>

TypingLoad ==
    /\ ~loaded
    /\ loaded' = TRUE
    /\ typingEffect

\* A pending setTimeout(typeNext) fires.
typeNext ==
    /\ loaded
    /\ typingTimers > 0
    /\ SetTypingState(TypeNextStep([TypingState EXCEPT !.timers = typingTimers - 1]))
    /\ UNCHANGED <<loaded, hasSubtitle, rawText, cursorOpacity>>

\* The interval callback of lines 106-108.
blinkCursor ==
    /\ loaded
    /\ blinkIntervals > 0
    /\ cursorOpacity' = IF cursorOpacity = "0" THEN "1" ELSE "0"
    /\ UNCHANGED <<loaded, hasSubtitle, rawText, full, i, elChildren, typingTimers,
                   blinkIntervals>>

(***************************************************************************)
(* Back-to-top button, theme toggle and lightbox                           *)
(***************************************************************************)
Absent == "absent"       \* no such item, attribute or element
ScrollThreshold == 300
ScrollOffsets ==
    {0} \cup ((ScrollThreshold - ScrollMargin)..(ScrollThreshold + ScrollMargin))

\* The scroll listener, line 141.
OnScroll(y) == IF y > ScrollThreshold THEN "grid" ELSE "none"

Sun == "sun"
Moon == "moon"

PrefersDarkUnguarded == systemDark

\* prefersDark, lines 27-28.
PrefersDark == matchMediaSupported /\ systemDark

\* Line 172: saved || (prefersDark() ? "dark" : "light")
InitialTheme(saved) ==
    IF saved # Absent /\ saved # "" THEN saved
    ELSE IF PrefersDark THEN "dark" ELSE "light"

IconForInverted(mode) == IF mode = "dark" THEN Moon ELSE Sun

\* Lines 180 and 200.
IconFor(mode) == IF mode = "dark" THEN Sun ELSE Moon

NextThemeStuck(marker) == "dark"

\* Lines 197-198.
NextTheme(marker) ==
    LET current == IF marker = Absent \/ marker = "" THEN "light" ELSE marker
    IN  IF current = "dark" THEN "light" ELSE "dark"

\* An applyTheme that appends a style block on every call.
ApplyThemeAppendsAlways(mode) ==
    /\ rootTheme' = mode
    /\ themeStyleCount' = themeStyleCount + 1

\* applyTheme, lines 152-168.
applyTheme(mode) ==
    /\ rootTheme' = mode
    /\ themeStyleCount' = IF themeStyleCount = 0 THEN 1 ELSE themeStyleCount

\* img.alt of the k-th opt-in image: odd images carry alternative text.
ImgAlt(k) == IF k % 2 = 1 THEN "photo" ELSE ""
LightboxKeys == {"Escape", "Enter"}
OverlayTargets == {"overlay", "figure", "big"}
InertEvents == {"figure", "big", "Enter"}

UiDocument ==
    /\ btnCount = 0
    /\ btnDisplay = Absent
    /\ rootTheme = Absent
    /\ themeIcon = Absent
    /\ themeStyleCount = 0
    /\ toggles = 0
    /\ loadMarker = Absent
    /\ loadStored = Absent
    /\ overlayCount = 0
    /\ bigCount = 0
    /\ overlayDisplay = Absent
    /\ bigSrc = 0
    /\ bigAlt = ""
    /\ lbLast = "none"
    /\ lbEvent = "none"
    /\ lbShown = <<>>

UiPage ==
    /\ scrollY \in ScrollOffsets
    /\ storage \in {Absent, "light", "dark"}
    /\ matchMediaSupported \in BOOLEAN
    /\ systemDark \in BOOLEAN
    /\ numImgs \in 0..NumImages
    /\ UiDocument

UiIdle ==
    /\ scrollY = 0
    /\ storage = Absent
    /\ matchMediaSupported = TRUE
    /\ systemDark = FALSE
    /\ numImgs = 0
    /\ UiDocument

\* backToTopButton, lines 117-144: the button is created hidden.
backToTopButton ==
    /\ btnCount' = btnCount + 1
    /\ btnDisplay' = "none"
    /\ UNCHANGED scrollY

\* themeToggle, lines 150-194.
themeToggle ==
    LET initial == InitialTheme(storage) IN
    /\ applyTheme(initial)
    /\ themeIcon' = IconFor(initial)
    /\ toggles' = 0
    /\ loadMarker' = initial
    /\ loadStored' = storage
    /\ UNCHANGED <<storage, matchMediaSupported, systemDark>>

\* lightbox, lines 242-269.
lightbox ==
    IF numImgs = 0
    THEN UNCHANGED lightboxVars
    ELSE /\ overlayCount' = overlayCount + 1
         /\ bigCount' = bigCount + 1
         /\ overlayDisplay' = "none"
         /\ bigAlt' = ""
         /\ UNCHANGED <<numImgs, bigSrc, lbLast, lbEvent, lbShown>>

UiLoad ==
    /\ ~loaded
    /\ loaded' = TRUE
    /\ backToTopButton
    /\ themeToggle
    /\ lightbox

\* The page is left or refreshed: the document is discarded, the stored
\* preference and the scroll offset (restored by the browser) survive.
Reload ==
    /\ loaded
    /\ loaded' = FALSE
    /\ btnCount' = 0
    /\ btnDisplay' = Absent
    /\ rootTheme' = Absent
    /\ themeIcon' = Absent
    /\ themeStyleCount' = 0
    /\ toggles' = 0
    /\ loadMarker' = Absent
    /\ loadStored' = Absent
    /\ overlayCount' = 0
    /\ bigCount' = 0
    /\ overlayDisplay' = Absent
    /\ bigSrc' = 0
    /\ bigAlt' = ""
    /\ lbLast' = "none"
    /\ lbEvent' = "none"
    /\ lbShown' = <<>>
    /\ UNCHANGED <<scrollY, storage, matchMediaSupported, systemDark, numImgs>>

\* The window's scroll event at offset y, line 140-142.
scroll(y) ==
    /\ loaded
    /\ scrollY' = y
    /\ btnDisplay' = OnScroll(y)
    /\ UNCHANGED <<loaded, btnCount, themeVars, lightboxVars>>

\* The click handler of line 143: the window scrolls to the top, which
\* raises a scroll event unless it is there already.
backToTopClick ==
    /\ loaded
    /\ scrollY # 0
    /\ scrollY' = 0
    /\ btnDisplay' = OnScroll(0)
    /\ UNCHANGED <<loaded, btnCount, themeVars, lightboxVars>>

\* The click handler of the toggle, lines 196-202.
themeToggleClick ==
    /\ loaded
    /\ toggles < MaxToggles
    /\ LET next == NextTheme(rootTheme) IN
        /\ applyTheme(next)
        /\ themeIcon' = IconFor(next)
        /\ storage' = next
    /\ toggles' = toggles + 1
    /\ UNCHANGED <<loaded, matchMediaSupported, systemDark, loadMarker, loadStored,
                   topVars, lightboxVars>>

\* An open that keeps the alternative text it has when the image has none.
OpenKeepsAlt(src, alt) ==
    /\ bigSrc' = src
    /\ bigAlt' = IF alt = "" THEN bigAlt ELSE alt
    /\ overlayDisplay' = "flex"

\* open, lines 271-275.
open(src, alt) ==
    /\ bigSrc' = src
    /\ bigAlt' = IF alt = "" THEN "" ELSE alt
    /\ overlayDisplay' = "flex"

\* close, line 276.
close == overlayDisplay' = "none"

\* Click on the k-th opt-in image, line 286.
imgClick(k) ==
    /\ loaded
    /\ open(k, ImgAlt(k))
    /\ lbLast' = "image"
    /\ lbEvent' = "image"
    /\ lbShown' = IF lbShown = <<>> THEN <<k>> ELSE <<lbShown[Len(lbShown)], k>>
    /\ UNCHANGED <<loaded, numImgs, overlayCount, bigCount, topVars, themeVars>>

CloseOnAnyClick(target) == TRUE

\* Line 279: e.target === overlay
CloseOnClick(target) == target = "overlay"

\* Line 282: e.key === "Escape"
CloseOnKey(key) == key = "Escape"

\* Click inside the overlay, lines 278-280; target is e.target.
overlayClick(target) ==
    /\ loaded
    /\ overlayCount > 0
    /\ IF CloseOnClick(target) THEN close ELSE UNCHANGED overlayDisplay
    /\ lbLast' = IF target = "overlay" THEN "background" ELSE lbLast
    /\ lbEvent' = IF target = "overlay" THEN "background" ELSE target
    /\ UNCHANGED <<loaded, numImgs, overlayCount, bigCount, bigSrc, bigAlt, lbShown,
                   topVars, themeVars>>

\* keydown on the document, lines 281-283.
keydown(key) ==
    /\ loaded
    /\ overlayCount > 0
    /\ IF CloseOnKey(key) THEN close ELSE UNCHANGED overlayDisplay
    /\ lbLast' = IF key = "Escape" THEN "escape" ELSE lbLast
    /\ lbEvent' = IF key = "Escape" THEN "escape" ELSE key
    /\ UNCHANGED <<loaded, numImgs, overlayCount, bigCount, bigSrc, bigAlt, lbShown,
                   topVars, themeVars>>

(***************************************************************************)
(* Reveal on scroll                                                        *)
(***************************************************************************)
Targets == 1..numTargets

\* An IntersectionObserverEntry: its target and isIntersecting.
Entries == Targets \X BOOLEAN

RevealPage ==
    /\ ioSupported \in BOOLEAN
    /\ numTargets \in 0..NumTargets
    /\ revealClass = {}
    /\ revealIn = {}
    /\ observed = {}
    /\ everIntersected = {}
    /\ lastBatch = <<>>

RevealIdle ==
    /\ ioSupported = TRUE
    /\ numTargets = 0
    /\ revealClass = {}
    /\ revealIn = {}
    /\ observed = {}
    /\ everIntersected = {}
    /\ lastBatch = <<>>

\* Lines 52-69: every target gets the class "reveal" and is observed.
revealOnScroll ==
    IF ioSupported /\ numTargets > 0
    THEN /\ revealClass' = Targets
         /\ observed' = Targets
         /\ UNCHANGED <<ioSupported, numTargets, revealIn, everIntersected, lastBatch>>
    ELSE UNCHANGED revealVars

RevealLoad ==
    /\ ~loaded
    /\ loaded' = TRUE
    /\ revealOnScroll

RevealsNonIntersecting(e) == TRUE

\* Line 57: entry.isIntersecting
Reveals(e) == e[2]

\* The targets the callback of lines 55-62 reveals and stops observing.
Revealed(entries) ==
    {entries[k][1] : k \in {j \in 1..Len(entries) : Reveals(entries[j])}}

\* The observer's callback, lines 55-62, on a batch of entries.  An entry
\* queued before unobserve may still be delivered afterwards.
intersection(entries) ==
    /\ loaded
    /\ revealClass # {}
    /\ revealIn' = revealIn \cup Revealed(entries)
    /\ observed' = observed \ Revealed(entries)
    /\ everIntersected' =
            everIntersected \cup
                {entries[k][1] : k \in {j \in 1..Len(entries) : entries[j][2]}}
    /\ lastBatch' = entries
    /\ UNCHANGED <<loaded, ioSupported, numTargets, revealClass>>

(***************************************************************************)
(* Smooth scroll for hash links                                            *)
(*                                                                         *)
(* The handler looks its target up with querySelector, so the href is read *)
(* as a CSS selector: "#" followed by an identifier, then ".class" parts.  *)
(***************************************************************************)
IdChars == {"a", "1", "."}
Frags == SeqsUpTo(IdChars, MaxIdLen)
NoElem == [id |-> Null, classes |-> {}]
NoClick ==
    [frag |-> Null, prevented |-> FALSE, scrolled |-> FALSE, pushed |-> FALSE,
     threw |-> FALSE]

Dots(s) == {k \in 1..Len(s) : s[k] = "."}

\* The parts of s between its dots.
RECURSIVE DotParts(_)
DotParts(s) ==
    IF Dots(s) = {} THEN <<s>>
    ELSE LET k == CHOOSE c \in Dots(s) : \A d \in Dots(s) : c <= d
         IN  <<SubSeq(s, 1, k - 1)>> \o DotParts(SubSeq(s, k + 1, Len(s)))

\* A CSS identifier does not start with a digit.
IsIdent(s) == s # <<>> /\ Head(s) # "1"

\* "#" + frag parses as a selector.
ValidSelector(frag) ==
    \A k \in 1..Len(DotParts(frag)) : IsIdent(DotParts(frag)[k])

\* document.querySelector("#" + frag) finds the element.
Selects(frag) ==
    /\ docElem # NoElem
    /\ docElem.id = DotParts(frag)[1]
    /\ \A k \in 2..Len(DotParts(frag)) : DotParts(frag)[k] \in docElem.classes

AnchorPage ==
    /\ docElem \in {NoElem} \cup
            [id : Frags \ {<<>>}, classes : {{}, {<<"a">>}}]
    /\ elemTop \in (IF docElem = NoElem THEN {0} ELSE ScrollOffsets)
    /\ urlHash = Null
    /\ lastAnchor = NoClick

AnchorIdle ==
    /\ docElem = NoElem
    /\ elemTop = 0
    /\ urlHash = Null
    /\ lastAnchor = NoClick

\* Lines 33-46: the handlers are installed; nothing in the document changes.
AnchorLoad ==
    /\ ~loaded
    /\ loaded' = TRUE
    /\ UNCHANGED <<anchorVars, uiVars>>

\* The click handler of a link with href "#" + frag, lines 34-45.  An invalid
\* selector makes querySelector throw and ends the handler.  scrollIntoView
\* moves the window, which raises a scroll event for the back-to-top listener
\* where that is installed.
anchorClick(frag) ==
    /\ loaded
    /\ IF frag = <<>> \/ ~ValidSelector(frag)
       THEN /\ lastAnchor' = [NoClick EXCEPT !.frag = frag, !.threw = (frag # <<>>)]
            /\ UNCHANGED <<scrollY, btnDisplay, urlHash>>
       ELSE IF ~Selects(frag)
       THEN /\ lastAnchor' = [NoClick EXCEPT !.frag = frag]
            /\ UNCHANGED <<scrollY, btnDisplay, urlHash>>
       ELSE /\ lastAnchor' =
                [frag |-> frag, prevented |-> TRUE, scrolled |-> TRUE,
                 pushed |-> TRUE, threw |-> FALSE]
            /\ scrollY' = elemTop
            /\ btnDisplay' = IF btnCount > 0 THEN OnScroll(elemTop) ELSE btnDisplay
            /\ urlHash' = frag
    /\ UNCHANGED <<loaded, docElem, elemTop, btnCount, themeVars, lightboxVars>>

(***************************************************************************)
(* Project filter                                                          *)
(***************************************************************************)
Lower(c) ==
    CASE c = "A" -> "a"
      [] c = "B" -> "b"
      [] c = "L" -> "l"
      [] OTHER -> c

\* String.prototype.toLowerCase
ToLowerCase(s) == [k \in 1..Len(s) |-> Lower(s[k])]

\* s || ""
OrEmpty(s) == IF s = Null THEN <<>> ELSE s

NormalizeNoTrim(s) == ToLowerCase(OrEmpty(s))

\* normalize, line 214.
normalize(s) == Trim(ToLowerCase(OrEmpty(s)))

Commas(s) == {k \in 1..Len(s) : s[k] = ","}

\* String.prototype.split(","): the pieces between the commas, in order.
RECURSIVE Split(_)
Split(s) ==
    IF Commas(s) = {} THEN <<s>>
    ELSE LET k == CHOOSE c \in Commas(s) : \A d \in Commas(s) : c <= d
         IN  <<SubSeq(s, 1, k - 1)>> \o Split(SubSeq(s, k + 1, Len(s)))

\* Line 221.
CardTagList(attr) ==
    LET parts == Split(OrEmpty(attr))
    IN  [k \in 1..Len(parts) |-> normalize(parts[k])]

All == <<"a", "l", "l">>

\* Line 222: tag === "all" || tags.includes(tag)
Show(tag, attr) ==
    \/ tag = All
    \/ \E k \in 1..Len(CardTagList(attr)) : CardTagList(attr)[k] = tag

\* Line 223.
DisplayFor(tag, attr) == IF Show(tag, attr) THEN "" ELSE "none"

\* applyFilter, lines 219-225.
applyFilter(tag) ==
    cardDisplay' = [c \in DOMAIN cardTags |-> DisplayFor(tag, cardTags[c])]

\* setActive, lines 215-217.
setActive(btn) == btnActive' = {b \in 1..NumButtons : b = btn}

\* data-filter of the controls of the page and data-tags of its cards.
FilterAttrs ==
    << <<"A", "l", "l">>, <<" ", "A">>, <<"b">>, <<"a", ",", "b">> >>
ButtonFilter(b) == FilterAttrs[((b - 1) % Len(FilterAttrs)) + 1]
TagAttrs ==
    { Null, <<"a">>, <<"A", ",", " ", "b">>, <<"a", "b">>, <<",", "B", " ">>,
      <<"a", "l", "l">> }

FilterPage ==
    /\ \E n \in 0..NumCards : cardTags \in [1..n -> TagAttrs]
    /\ cardDisplay \in [DOMAIN cardTags -> {"", "none"}]
    /\ btnActive \in SUBSET (1..NumButtons)
    /\ filterOn = FALSE
    /\ lastClicked = 0

FilterIdle ==
    /\ cardTags = <<>>
    /\ cardDisplay = <<>>
    /\ btnActive = {}
    /\ filterOn = FALSE
    /\ lastClicked = 0

\* projectFilter, lines 209-237.
projectFilter ==
    IF NumButtons = 0 \/ DOMAIN cardTags = {}
    THEN UNCHANGED filterVars
    ELSE /\ filterOn' = TRUE
         /\ applyFilter(All)
         /\ UNCHANGED <<cardTags, btnActive, lastClicked>>

FilterLoad ==
    /\ ~loaded
    /\ loaded' = TRUE
    /\ projectFilter

\* The click handler of a filter control, lines 228-232.
filterClick(btn) ==
    /\ loaded
    /\ filterOn
    /\ setActive(btn)
    /\ applyFilter(normalize(ButtonFilter(btn)))
    /\ lastClicked' = btn
    /\ UNCHANGED <<loaded, cardTags, filterOn>>

(***************************************************************************)
(* Toast utility and copy e-mail                                           *)
(*                                                                         *)
(* An href is a sequence of lexemes; the literal "mailto:" is one lexeme.  *)
(***************************************************************************)
ToastDuration == 1500    \* default duration of toast
NavDelay == 400          \* delay before the mail link is opened
TimeStep == ToastDuration \div 3
MaxTime == MaxTicks * TimeStep

MailTo == "mailto:"
HrefLexemes == {MailTo, "x", " "}
AttrValues == {Null, <<>>, <<"y">>}
MsgCopied == "E-mail copiado!"
MsgFailed == "Nao foi possivel copiar o e-mail."

\* String.prototype.replace(lex, ""): the first occurrence is removed.
RECURSIVE RemoveFirst(_, _)
RemoveFirst(s, lex) ==
    IF s = <<>> THEN <<>>
    ELSE IF Head(s) = lex THEN Tail(s)
    ELSE <<Head(s)>> \o RemoveFirst(Tail(s), lex)

\* a[href^="mailto:"]
IsMailLink(href) == href # Null /\ href # <<>> /\ Head(href) = MailTo

\* '[data-copy-email], a[href^="mailto:"]'
MatchesCopySelector(attr, href) == attr # Null \/ IsMailLink(href)

\* Lines 299-301: el.dataset.copyEmail || (href || "").replace("mailto:", "").trim()
ResolveEmail(attr, href) ==
    IF attr # Null /\ attr # <<>>
    THEN attr
    ELSE Trim(RemoveFirst(IF href = Null THEN <<>> ELSE href, MailTo))

Act(email, prevented, promise) ==
    [email |-> email, prevented |-> prevented, promise |-> promise,
     toast |-> "none", navScheduled |-> FALSE, navigated |-> FALSE]

HideTimer(a, duration) == [kind |-> "hide", act |-> a, due |-> now + duration]
NavTimer(a) == [kind |-> "navigate", act |-> a, due |-> now + NavDelay]

\* A toast that appends a new element on every call.
ToastAppendsAlways(a, msg, duration, more) ==
    /\ toastCount' = toastCount + 1
    /\ toastText' = msg
    /\ toastOpacity' = "1"
    /\ timers' = timers \cup {HideTimer(a, duration)} \cup more
    /\ lastToast' = [at |-> now, duration |-> duration, msg |-> msg]

\* toast(msg, duration), lines 337-367, called for activation a; more is the
\* set of timers the caller schedules in the same callback.
toast(a, msg, duration, more) ==
    /\ toastCount' = IF toastCount = 0 THEN 1 ELSE toastCount
    /\ toastText' = msg
    /\ toastOpacity' = "1"
    /\ timers' = timers \cup {HideTimer(a, duration)} \cup more
    /\ lastToast' = [at |-> now, duration |-> duration, msg |-> msg]

CopyPage ==
    /\ copyPresent \in BOOLEAN
    /\ copyAttr \in AttrValues
    /\ copyHref \in {Null} \cup SeqsUpTo(HrefLexemes, MaxHrefLen)
    /\ IF copyPresent
       THEN MatchesCopySelector(copyAttr, copyHref)
       ELSE copyAttr = Null /\ copyHref = Null
    /\ clipboardApi \in BOOLEAN
    /\ acts = <<>>
    /\ clipboard = Null
    /\ timers = {}
    /\ now = 0
    /\ toastCount = 0
    /\ toastText = ""
    /\ toastOpacity = ""
    /\ lastToast = NoToast
    /\ navigations = <<>>

CopyIdle ==
    /\ copyPresent = FALSE
    /\ copyAttr = Null
    /\ copyHref = Null
    /\ clipboardApi = TRUE
    /\ acts = <<>>
    /\ clipboard = Null
    /\ timers = {}
    /\ now = 0
    /\ toastCount = 0
    /\ toastText = ""
    /\ toastOpacity = ""
    /\ lastToast = NoToast
    /\ navigations = <<>>

\* copyEmail installs the click handler; nothing in the document changes.
CopyLoad ==
    /\ ~loaded
    /\ loaded' = TRUE
    /\ UNCHANGED copyVars

\* The click handler, lines 298-312, up to the call of writeText.  Where
\* navigator.clipboard is undefined the call throws after preventDefault.
copyEmailClick ==
    /\ loaded
    /\ copyPresent
    /\ Len(acts) < MaxClicks
    /\ LET email == ResolveEmail(copyAttr, copyHref) IN
        acts' = Append(acts,
                    IF email = <<>> THEN Act(email, FALSE, "none")
                    ELSE IF ~clipboardApi THEN Act(email, TRUE, "threw")
                    ELSE Act(email, TRUE, "pending"))
    /\ UNCHANGED <<loaded, copyPresent, copyAttr, copyHref, clipboardApi, clipboard,
                   timers, now, toastCount, toastText, toastOpacity, lastToast,
                   navigations>>

\* writeText fulfils and the then-callback of lines 306-310 runs.
clipboardFulfilled(a) ==
    /\ acts[a].promise = "pending"
    /\ clipboard' = acts[a].email
    /\ toast(a, MsgCopied, ToastDuration, {NavTimer(a)})
    /\ acts' = [acts EXCEPT ![a].promise = "fulfilled", ![a].toast = "copied",
                            ![a].navScheduled = TRUE]
    /\ UNCHANGED <<loaded, copyPresent, copyAttr, copyHref, clipboardApi, now,
                   navigations>>

\* writeText rejects and the catch-callback of line 311 runs.
clipboardRejected(a) ==
    /\ acts[a].promise = "pending"
    /\ toast(a, MsgFailed, ToastDuration, {})
    /\ acts' = [acts EXCEPT ![a].promise = "rejected", ![a].toast = "failed"]
    /\ UNCHANGED <<loaded, copyPresent, copyAttr, copyHref, clipboardApi, clipboard,
                   now, navigations>>

\* The timer of line 309 fires.
navigateTimer(t) ==
    /\ t.kind = "navigate"
    /\ t.due <= now
    /\ timers' = timers \ {t}
    /\ navigations' = Append(navigations, <<MailTo>> \o acts[t.act].email)
    /\ acts' = [acts EXCEPT ![t.act].navigated = TRUE]
    /\ UNCHANGED <<loaded, copyPresent, copyAttr, copyHref, clipboardApi, clipboard,
                   now, toastCount, toastText, toastOpacity, lastToast>>

\* The timer of lines 363-366 fires.
hideToast(t) ==
    /\ t.kind = "hide"
    /\ t.due <= now
    /\ timers' = timers \ {t}
    /\ toastOpacity' = "0"
    /\ UNCHANGED <<loaded, copyPresent, copyAttr, copyHref, clipboardApi, acts,
                   clipboard, now, toastCount, toastText, lastToast, navigations>>

\* Time passes; a timer that is due fires before the clock moves on.
Tick ==
    /\ loaded
    /\ now + TimeStep <= MaxTime
    /\ \A t \in timers : t.due > now
    /\ now' = now + TimeStep
    /\ UNCHANGED <<loaded, copyPresent, copyAttr, copyHref, clipboardApi, acts,
                   clipboard, timers, toastCount, toastText, toastOpacity, lastToast,
                   navigations>>

InitCopy ==
    /\ loaded = FALSE
    /\ events = 0
    /\ TypingIdle
    /\ CopyPage
    /\ UiIdle
    /\ FilterIdle
    /\ RevealIdle
    /\ AnchorIdle

NextCopy ==
    \/ CopyLoad /\ UNCHANGED <<exceptCopy, events>>
    \/ copyEmailClick /\ UNCHANGED <<exceptCopy, events>>
    \/ \E a \in DOMAIN acts : clipboardFulfilled(a) /\ UNCHANGED <<exceptCopy, events>>
    \/ \E a \in DOMAIN acts : clipboardRejected(a) /\ UNCHANGED <<exceptCopy, events>>
    \/ \E t \in timers : navigateTimer(t) /\ UNCHANGED <<exceptCopy, events>>
    \/ \E t \in timers : hideToast(t) /\ UNCHANGED <<exceptCopy, events>>
    \/ Tick /\ UNCHANGED <<exceptCopy, events>>

SpecCopy == InitCopy /\ [][NextCopy]_vars

\* C2: after any sequence of toast calls the toast stays visible until the
\* duration of the most recent call has elapsed; a hide timer of an earlier
\* call never hides it while a later call's duration is running.
ToastVisibleForLatestDuration ==
    (lastToast # NoToast /\ now < lastToast.at + lastToast.duration) =>
        toastOpacity = "1"

\* C5: every activation that resolves a non-empty address suppresses the
\* default navigation and, once the clipboard write is over, has shown either
\* the success toast (with the navigation scheduled) or the failure toast
\* (with no navigation): never neither.
CopyOutcomeAcknowledged ==
    \A a \in DOMAIN acts :
        acts[a].email # <<>> =>
            /\ acts[a].prevented
            /\ acts[a].promise # "pending" =>
                \/ acts[a].toast = "copied" /\ acts[a].navScheduled
                \/ acts[a].toast = "failed" /\ ~acts[a].navScheduled
                                            /\ ~acts[a].navigated

\* C8: a non-empty data attribute is the resolved address whatever the href;
\* without one, a target "mailto:X" resolves to X (surrounding whitespace
\* aside); with neither, the handler suppresses nothing, writes nothing to
\* the clipboard and shows no toast.
CopyAddressResolution ==
    \A a \in DOMAIN acts :
        /\ (copyAttr # Null /\ copyAttr # <<>>) => acts[a].email = copyAttr
        /\ (copyAttr \in {Null, <<>>} /\ IsMailLink(copyHref)) =>
                acts[a].email = Trim(Tail(copyHref))
        /\ (copyAttr \in {Null, <<>>} /\ ~IsMailLink(copyHref)) =>
                /\ ~acts[a].prevented
                /\ acts[a].promise = "none"
                /\ acts[a].toast = "none"

InitTyping ==
    /\ loaded = FALSE
    /\ events = 0
    /\ TypingPage
    /\ CopyIdle
    /\ UiIdle
    /\ FilterIdle
    /\ RevealIdle
    /\ AnchorIdle

NextTyping ==
    \/ TypingLoad /\ UNCHANGED <<exceptTyping, events>>
    \/ typeNext /\ UNCHANGED <<exceptTyping, events>>
    \/ blinkCursor /\ UNCHANGED <<exceptTyping, events>>

SpecTyping == InitTyping /\ [][NextTyping]_vars

\* What the subtitle element renders.
Rendered == TextContent(elChildren)

\* C1: after k ticks of typeNext (k in 1..N) the subtitle's rendered text is the
\* first k characters of the source followed by exactly one cursor glyph.
TypingPrefixThenCursor ==
    (loaded /\ hasSubtitle /\ i >= 1) =>
        Rendered = SubSeq(full, 1, i) \o <<CursorGlyph>>

Init ==
    /\ loaded = FALSE
    /\ events = 0
    /\ TypingIdle
    /\ CopyIdle
    /\ UiPage
    /\ FilterIdle
    /\ RevealIdle
    /\ AnchorIdle

Next ==
    \/ UiLoad /\ UNCHANGED <<exceptUi, events>>
    \/ Reload /\ UNCHANGED <<exceptUi, events>>
    \/ \E y \in ScrollOffsets : scroll(y) /\ UNCHANGED <<exceptUi, events>>
    \/ backToTopClick /\ UNCHANGED <<exceptUi, events>>
    \/ themeToggleClick /\ UNCHANGED <<exceptUi, events>>
    \/ \E k \in 1..numImgs : imgClick(k) /\ UNCHANGED <<exceptUi, events>>
    \/ \E t \in OverlayTargets : overlayClick(t) /\ UNCHANGED <<exceptUi, events>>
    \/ \E key \in LightboxKeys : keydown(key) /\ UNCHANGED <<exceptUi, events>>

Spec == Init /\ [][Next]_vars

\* C3: in every state from page load on, the back-to-top button is shown
\* if and only if the scroll offset exceeds 300.
BackToTopShownIffOver300 ==
    loaded => (btnDisplay = "grid" <=> scrollY > ScrollThreshold)

\* C4, as stated: two toggle clicks return the root marker and the stored
\* preference to the values they had right after load.
ThemeRoundTrip ==
    (loaded /\ toggles = 2) => (rootTheme = loadMarker /\ storage = loadStored)

\* C4, amended: two toggle clicks return the root marker to its value right
\* after load and leave the stored preference equal to it; the stored
\* preference is back at its value right after load whenever one was stored.
ThemeRoundTripMarker ==
    (loaded /\ toggles = 2) =>
        /\ rootTheme = loadMarker
        /\ storage = loadMarker
        /\ loadStored # Absent => storage = loadStored

ThemeRoundTripFromAbsent ==
    /\ loaded
    /\ toggles = 2
    /\ loadStored = Absent
    /\ rootTheme = loadMarker
    /\ storage = loadMarker

\* C9: right after load the root marker is the stored preference when there
\* is one, else "dark" when the dark-mode query exists and matches, else
\* "light"; and the toggle icon corresponds to the marker.
ThemeInitialResolution ==
    (loaded /\ toggles = 0) =>
        /\ storage # Absent => rootTheme = storage
        /\ (storage = Absent /\ matchMediaSupported /\ systemDark) =>
                rootTheme = "dark"
        /\ (storage = Absent /\ ~(matchMediaSupported /\ systemDark)) =>
                rootTheme = "light"
        /\ themeIcon = (IF rootTheme = "dark" THEN Sun ELSE Moon)

ThemeResolvedWithoutMatchMedia ==
    /\ loaded
    /\ toggles = 0
    /\ storage = Absent
    /\ ~matchMediaSupported
    /\ systemDark
    /\ rootTheme = "light"
    /\ themeIcon = Moon

\* C10: each toggle click swaps the root marker between "light" and "dark";
\* after one or more clicks the stored preference equals the marker, is
\* "light" or "dark", and the icon is the sun exactly when the marker is
\* "dark"; only a toggle click changes the stored preference.
ThemeToggleConsistency ==
    /\ []((loaded /\ toggles >= 1) =>
            /\ storage = rootTheme
            /\ storage \in {"light", "dark"}
            /\ themeIcon \in {Sun, Moon}
            /\ themeIcon = Sun <=> rootTheme = "dark")
    /\ [][toggles' = toggles + 1 =>
            /\ {rootTheme, rootTheme'} = {"light", "dark"}
            /\ storage' = rootTheme']_vars
    /\ [][storage' # storage => toggles' = toggles + 1]_vars

ThemeToggledToDark ==
    /\ loaded
    /\ toggles >= 1
    /\ loadStored = Absent
    /\ storage = "dark"
    /\ rootTheme = "dark"
    /\ themeIcon = Sun

\* C7: the overlay is visible exactly when the last event among image
\* click, background click and Escape is an image click; a click on the
\* enlarged image and a key other than Escape leave the visibility as it
\* is; Escape or a background click while closed changes nothing.
LightboxVisibility ==
    /\ []((loaded /\ overlayCount > 0) =>
            (overlayDisplay = "flex" <=> lbLast = "image"))
    /\ [][lbEvent' \in InertEvents => overlayDisplay' = overlayDisplay]_vars
    /\ [][(lbEvent' \in {"background", "escape"} /\ overlayDisplay = "none") =>
            UNCHANGED <<overlayDisplay, bigSrc, bigAlt>>]_vars

LightboxStaysOpenOnImageClick ==
    /\ loaded
    /\ overlayDisplay = "flex"
    /\ lbLast = "image"
    /\ lbEvent = "big"

InitFilter ==
    /\ loaded = FALSE
    /\ events = 0
    /\ TypingIdle
    /\ CopyIdle
    /\ UiIdle
    /\ FilterPage
    /\ RevealIdle
    /\ AnchorIdle

NextFilter ==
    \/ FilterLoad /\ UNCHANGED <<exceptFilter, events>>
    \/ \E b \in 1..NumButtons :
            filterClick(b) /\ UNCHANGED <<exceptFilter, events>>

SpecFilter == InitFilter /\ [][NextFilter]_vars

\* The pieces of s between its commas.
Segments(s) ==
    { SubSeq(s, a, b) : <<a, b>> \in
        { p \in (1..Len(s) + 1) \X (0..Len(s)) :
            /\ p[1] <= p[2] + 1
            /\ p[1] = 1 \/ s[p[1] - 1] = ","
            /\ p[2] = Len(s) \/ s[p[2] + 1] = ","
            /\ \A k \in p[1]..p[2] : s[k] # "," } }

\* The normalized tag set of a card: its tags lower-cased and trimmed.
TagSet(c) ==
    { Trim(ToLowerCase(seg)) :
        seg \in Segments(IF cardTags[c] = Null THEN <<>> ELSE cardTags[c]) }

ClickedTag == Trim(ToLowerCase(ButtonFilter(lastClicked)))

\* C6: where the filter is installed, after any sequence of filter clicks
\* the visible cards are exactly those whose normalized tag set contains the
\* normalized tag of the control clicked last, or all cards when that tag is
\* "all" (as before any click); and after a click the control clicked last
\* is the only one that carries the active mark.
FilterShowsMatchingCards ==
    (loaded /\ filterOn) =>
        /\ \A c \in DOMAIN cardTags :
            cardDisplay[c] # "none" <=>
                \/ lastClicked = 0
                \/ ClickedTag = All
                \/ ClickedTag \in TagSet(c)
        /\ lastClicked # 0 => btnActive = {lastClicked}

FilterHidesAndShows ==
    /\ loaded
    /\ filterOn
    /\ lastClicked = 2
    /\ \E c, d \in DOMAIN cardTags :
        /\ cardTags[c] = <<"A", ",", " ", "b">>
        /\ cardDisplay[c] = ""
        /\ cardTags[d] = <<"a", "b">>
        /\ cardDisplay[d] = "none"
    /\ btnActive = {2}

InitReveal ==
    /\ loaded = FALSE
    /\ events = 0
    /\ TypingIdle
    /\ CopyIdle
    /\ UiIdle
    /\ FilterIdle
    /\ RevealPage
    /\ AnchorIdle

NextReveal ==
    \/ RevealLoad /\ UNCHANGED <<exceptReveal, events>>
    \/ \E entries \in SeqsUpTo(Entries, MaxBatch) \ {<<>>} :
            intersection(entries) /\ UNCHANGED <<exceptReveal, events>>

SpecReveal == InitReveal /\ [][NextReveal]_vars

\* C11: once an intersecting notification has been delivered for a target,
\* the class "reveal-in" is present in every later state, whatever
\* notifications follow, and the target is no longer observed; a target
\* that has never intersected never carries the class.
RevealOneShot ==
    /\ [](\A t \in Targets :
            /\ t \in everIntersected => (t \in revealIn /\ t \notin observed)
            /\ t \notin everIntersected => t \notin revealIn)
    /\ [][revealIn \subseteq revealIn']_vars

RevealedStaysAfterLeaving ==
    /\ loaded
    /\ \E t \in Targets :
        /\ t \in revealIn
        /\ t \notin observed
        /\ lastBatch = <<<<t, FALSE>>>>

InitAnchor ==
    /\ loaded = FALSE
    /\ events = 0
    /\ TypingIdle
    /\ CopyIdle
    /\ UiIdle
    /\ FilterIdle
    /\ RevealIdle
    /\ AnchorPage

NextAnchor ==
    \/ AnchorLoad /\ UNCHANGED <<exceptAnchor, events>>
    \/ \E frag \in Frags : anchorClick(frag) /\ UNCHANGED <<exceptAnchor, events>>

SpecAnchor == InitAnchor /\ [][NextAnchor]_vars

\* The document holds an element whose id is the fragment.
TargetExists(frag) == docElem # NoElem /\ docElem.id = frag

\* C12: a click on a hash link whose target element exists suppresses the
\* default navigation, scrolls to the target and sets the address fragment;
\* a click on one whose target does not exist (the bare "#" included)
\* suppresses nothing and changes neither scroll position nor history.
SmoothScrollIntercepts ==
    lastAnchor # NoClick =>
        IF TargetExists(lastAnchor.frag)
        THEN /\ lastAnchor.prevented
             /\ lastAnchor.scrolled
             /\ lastAnchor.pushed
             /\ urlHash = lastAnchor.frag
        ELSE /\ ~lastAnchor.prevented
             /\ ~lastAnchor.scrolled
             /\ ~lastAnchor.pushed

\* C13: after any sequence of toast calls at most one toast element exists
\* (none before the first call, one from then on), and its text is the
\* message of the most recent call, also after hide timers of earlier calls
\* have fired.
ToastSingleton ==
    /\ toastCount <= 1
    /\ lastToast = NoToast => toastCount = 0 /\ toastText = ""
    /\ lastToast # NoToast => toastCount = 1 /\ toastText = lastToast.msg

\* Two calls with different messages, the hide timer of the first has fired
\* and that of the second is still pending.
ToastReusedAfterEarlierHide ==
    /\ Len(acts) = 2
    /\ acts[1].toast = "copied"
    /\ acts[2].toast = "failed"
    /\ toastText = MsgFailed
    /\ toastOpacity = "0"
    /\ \E t \in timers : t.kind = "hide" /\ t.act = 2
    /\ \A t \in timers : t.kind = "hide" => t.act # 1

\* C14: after page load and any number of toggle clicks exactly one theme
\* style block exists in the document; before load there is none.
ThemeStyleBlockOnce ==
    /\ loaded => themeStyleCount = 1
    /\ ~loaded => themeStyleCount = 0

\* applyTheme has run three times: once at load and on two toggle clicks.
ThemeReappliedTwice == loaded /\ toggles = 2 /\ themeStyleCount = 1

\* Timers and intervals that are pending do fire.
SpecTypingFair ==
    /\ SpecTyping
    /\ WF_vars(typeNext /\ UNCHANGED <<exceptTyping, events>>)
    /\ WF_vars(blinkCursor /\ UNCHANGED <<exceptTyping, events>>)

\* The effect is running and has not yet started the blink interval.
Typing == loaded /\ hasSubtitle /\ blinkIntervals = 0
\* The else branch of typeNext has run.
Blinking == loaded /\ hasSubtitle /\ blinkIntervals > 0

CursorAttached == \E k \in 1..Len(elChildren) : elChildren[k] = CursorNode
\* The cursor shows when it is in the document and its opacity is not "0".
CursorVisible == CursorAttached /\ cursorOpacity # "0"

\* C15: under fair firing of timers the effect eventually leaves Typing and
\* enters Blinking; once in Blinking no further source character is revealed,
\* exactly one blink interval has been started, the cursor's visibility
\* alternates on every interval firing, forever, and during Typing at most one
\* typing timer is pending.
TypingProgress ==
    /\ (loaded /\ hasSubtitle) ~> Blinking
    /\ [](Blinking => i = Len(full) /\ typingTimers = 0 /\ blinkIntervals = 1)
    /\ [][Blinking => Blinking' /\ i' = i /\ elChildren' = elChildren]_vars
    /\ [](Typing => typingTimers <= 1)
    /\ [][cursorOpacity' # cursorOpacity => CursorVisible' # CursorVisible]_vars
    /\ Blinking ~> CursorVisible
    /\ Blinking ~> ~CursorVisible

\* C16: for every source text, the text that is empty after trimming
\* included, from the start of the effect on (Typing and Blinking alike) the
\* cursor is attached to the subtitle element as its last child.
TypingCursorLastChild ==
    (loaded /\ hasSubtitle) =>
        /\ elChildren # <<>>
        /\ elChildren[Len(elChildren)] = CursorNode

\* The image clicked most recently.
LastShown == lbShown[Len(lbShown)]

\* C17: one overlay and one enlarged image are created at load of a page with
\* opt-in images and never another, whatever opens and closes follow; while
\* the overlay is visible the enlarged image has the source and the
\* alternative text of the image clicked most recently, the empty text for an
\* image without alternative text.
LightboxContent ==
    /\ overlayCount <= 1
    /\ bigCount <= 1
    /\ (loaded /\ numImgs > 0) => overlayCount = 1 /\ bigCount = 1
    /\ overlayDisplay = "flex" =>
            /\ lbShown # <<>>
            /\ bigSrc = LastShown
            /\ bigAlt = ImgAlt(LastShown)

\* An image without alternative text is shown after one that has some.
LightboxAltReplacedByEmpty ==
    /\ overlayDisplay = "flex"
    /\ Len(lbShown) = 2
    /\ ImgAlt(lbShown[1]) # ""
    /\ ImgAlt(lbShown[2]) = ""
    /\ bigAlt = ""

(***************************************************************************)
(* The whole script on one page: a subtitle, a back-to-top button, a theme *)
(* toggle, one opt-in image, filter controls, project cards (which are the *)
(* reveal targets: both features select ".project"), a copy control and a  *)
(* hash link to a section below the scroll threshold.                      *)
(***************************************************************************)
PageCardTags ==
    [k \in 1..NumCards |-> IF k % 2 = 1 THEN <<"a">> ELSE <<"A", ",", " ", "b">>]

InitPage ==
    /\ loaded = FALSE
    /\ events = 0
    /\ TypingPage /\ hasSubtitle /\ rawText = <<"a">>
    /\ CopyPage /\ copyPresent /\ copyAttr = <<"y">> /\ copyHref = Null
    /\ clipboardApi
    /\ UiPage /\ scrollY = 0 /\ storage = Absent /\ matchMediaSupported
    /\ ~systemDark /\ numImgs = 1
    /\ FilterPage /\ cardTags = PageCardTags /\ btnActive = {}
    /\ \A c \in DOMAIN cardTags : cardDisplay[c] = ""
    /\ RevealPage /\ ioSupported /\ numTargets = Len(cardTags)
    /\ AnchorPage /\ docElem = [id |-> <<"a">>, classes |-> {}]
    /\ elemTop = ScrollThreshold + ScrollMargin

\* The script runs once, top to bottom, in one task.
PageLoad ==
    /\ ~loaded
    /\ loaded' = TRUE
    /\ revealOnScroll
    /\ typingEffect
    /\ backToTopButton
    /\ themeToggle
    /\ projectFilter
    /\ lightbox
    /\ UNCHANGED <<copyVars, anchorVars, events>>

\* One callback of each feature, with what it leaves alone.
TypingStep == (typeNext \/ blinkCursor) /\ UNCHANGED exceptTyping

TopStep ==
    ((\E y \in ScrollOffsets : scroll(y)) \/ backToTopClick) /\ UNCHANGED exceptUi

ThemeStep == themeToggleClick /\ UNCHANGED exceptUi

LightboxStep ==
    /\ \/ \E k \in 1..numImgs : imgClick(k)
       \/ \E target \in OverlayTargets : overlayClick(target)
       \/ \E key \in LightboxKeys : keydown(key)
    /\ UNCHANGED exceptUi

\* A filter that hides a card by resetting its class attribute.
FilterStepResetsClass ==
    /\ \E b \in 1..NumButtons : filterClick(b)
    /\ revealIn' = {k \in revealIn : cardDisplay'[k] # "none"}
    /\ UNCHANGED <<typingVars, copyVars, uiVars, anchorVars, ioSupported,
                   numTargets, revealClass, observed, everIntersected, lastBatch>>

FilterStep == (\E b \in 1..NumButtons : filterClick(b)) /\ UNCHANGED exceptFilter

RevealStep == (\E e \in Entries : intersection(<<e>>)) /\ UNCHANGED exceptReveal

CopyStep ==
    /\ \/ copyEmailClick
       \/ \E a \in DOMAIN acts : clipboardFulfilled(a)
       \/ \E a \in DOMAIN acts : clipboardRejected(a)
       \/ \E t \in timers : navigateTimer(t)
       \/ \E t \in timers : hideToast(t)
    /\ UNCHANGED exceptCopy

AnchorStep ==
    (\E frag \in {<<>>, <<"a">>, <<"1">>} : anchorClick(frag))
        /\ UNCHANGED exceptAnchor

\* Time passes while a timer is pending.
ClockStep == timers # {} /\ Tick /\ UNCHANGED <<exceptCopy, events>>

Event == events < MaxEvents /\ events' = events + 1

NextPage ==
    \/ PageLoad
    \/ Event /\ TypingStep
    \/ Event /\ TopStep
    \/ Event /\ ThemeStep
    \/ Event /\ LightboxStep
    \/ Event /\ FilterStep
    \/ Event /\ RevealStep
    \/ Event /\ CopyStep
    \/ Event /\ AnchorStep
    \/ ClockStep

SpecPage == InitPage /\ [][NextPage]_vars

\* What each feature keeps in the document and the browser.
FilterState == <<cardDisplay, btnActive>>
RevealState == <<revealClass, revealIn, observed>>

\* C18 as stated: after load, no resource is written by more than one
\* feature: the subtitle by the typing effect, toast and clipboard by the copy
\* control, scroll position and button by back-to-top, marker, style block
\* and stored preference by the theme toggle, the overlay by the lightbox,
\* card display and active marks by the filter, reveal classes by the
\* observer, the address by smooth scroll.
FeatureIsolation ==
    [][loaded =>
        /\ typingVars' # typingVars => TypingStep
        /\ copyVars' # copyVars => CopyStep \/ ClockStep
        /\ topVars' # topVars => TopStep
        /\ themeVars' # themeVars => ThemeStep
        /\ lightboxVars' # lightboxVars => LightboxStep
        /\ filterVars' # filterVars => FilterStep
        /\ revealVars' # revealVars => RevealStep
        /\ anchorVars' # anchorVars => AnchorStep]_vars

\* C18, amended: the window scroll position (and with it, through the scroll
\* listener, the display of the back-to-top button) is written by back-to-top
\* and by smooth scroll; every other resource is written by one feature.  On
\* cards that are reveal targets a filter click changes only card display and
\* active marks, an intersection notification only reveal classes, and theme
\* toggles, lightbox events, scrolling and the copy control with its toasts
\* leave filter state and reveal state alone; only the theme toggle writes
\* the stored preference.
FeatureIsolationExceptScroll ==
    [][loaded =>
        /\ typingVars' # typingVars => TypingStep
        /\ copyVars' # copyVars => CopyStep \/ ClockStep
        /\ <<scrollY, btnDisplay>>' # <<scrollY, btnDisplay>> =>
                TopStep \/ AnchorStep
        /\ btnCount' = btnCount
        /\ themeVars' # themeVars => ThemeStep
        /\ lightboxVars' # lightboxVars => LightboxStep
        /\ filterVars' # filterVars => FilterStep
        /\ revealVars' # revealVars => RevealStep
        /\ anchorVars' # anchorVars => AnchorStep
        /\ FilterStep => UNCHANGED <<RevealState, cardTags, filterOn, storage>>
        /\ RevealStep => UNCHANGED <<FilterState, revealClass, storage>>
        /\ (ThemeStep \/ LightboxStep \/ TopStep \/ CopyStep) =>
                UNCHANGED <<FilterState, RevealState>>
        /\ storage' # storage => ThemeStep]_vars

\* A card that has been revealed is hidden by a filter click and keeps its
\* reveal classes, and the theme has been toggled since.
RevealedCardFilteredOut ==
    /\ loaded
    /\ 1 \in revealClass
    /\ 1 \in revealIn
    /\ cardDisplay[1] = "none"
    /\ toggles = 1

====
